---- MODULE Spec2Model ----
(***************************************************************************)
(* A model of src/selection.rs: the Selection state machine (Empty or      *)
(* Active with an anchored start and a movable end), the span() resolver   *)
(* and the two conversions of a Span, to_locations and to_range.           *)
(*                                                                         *)
(* One Selection value is driven by a caller that calls update and clear   *)
(* and queries is_empty, span, span().to_locations and span().to_range.    *)
(* The value every call returns is kept in `ret`, together with a flag     *)
(* telling whether a usize subtraction of the call went below zero (a      *)
(* panic in a debug build, a wrapped value in a release build).            *)
(***************************************************************************)
EXTENDS Integers, Sequences, FiniteSets, TLC

(* ------------------------------ bounds -------------------------------- *)
\* lines of the grid are 0..MaxLine
MaxLine == 1
\* the grid width is drawn from 1..MaxCols
MaxCols == 5
\* updates between two clears
MaxUpdates == 3
\* width of the machine word the model gives usize
UsizeBits == 16

(* ------------------------ index.rs primitives ------------------------- *)
UsizeModulus == 2 ^ UsizeBits

\* usize subtraction as a release build computes it
UsizeSub(a, b) == (a - b + UsizeModulus) % UsizeModulus

\* the subtraction goes below zero: a debug build panics on it
SubUnderflows(a, b) == a < b

Sides == {"Left", "Right"}

Point(l, c) == [line |-> l, col |-> c]

\* #[derive(PartialOrd)] on Point { line, col }: line first, then column
PointLt(a, b) == a.line < b.line \/ (a.line = b.line /\ a.col < b.col)

PointLe(a, b) == ~PointLt(b, a)

\* Linear(line * cols + col)
Linear(p, cols) == p.line * cols + p.col

None == [tag |-> "None"]

Some(v) == [tag |-> "Some", val |-> v]

(* ----------------------------- Selection ------------------------------ *)
Empty == [tag |-> "Empty"]

Active(start, end, start_side, end_side) ==
    [tag |-> "Active", start |-> start, end |-> end,
     start_side |-> start_side, end_side |-> end_side]

new == Empty

\* clear that only collapses the selection onto its anchor
clear_keeps_start(self) ==
    IF self.tag = "Active"
    THEN Active(self.start, self.start, self.start_side, self.start_side)
    ELSE Empty

clear(self) == Empty

\* is_empty that also answers true for a selection collapsed onto its anchor
is_empty_when_collapsed(self) ==
    IF self.tag = "Empty" THEN TRUE
    ELSE self.start = self.end /\ self.start_side = self.end_side

is_empty(self) == self.tag = "Empty"

\* update whose new start is the end it replaces
update_start_follows_end(self, location, side) ==
    IF self.tag = "Empty"
    THEN Active(location, location, side, side)
    ELSE Active(self.end, location, self.end_side, side)

\* update that moves the anchor along with the end
update_moves_start(self, location, side) ==
    Active(location, location, side, side)

update(self, location, side) ==
    IF self.tag = "Empty"
    THEN Active(location, location, side, side)
    ELSE Active(self.start, location, self.start_side, side)

(* ------------------------------- span --------------------------------- *)
\* a computed value, and whether a usize subtraction on the way to it went
\* below zero
Checked(val, underflow) == [val |-> val, underflow |-> underflow]

\* the tuple of span() that swaps the points of an upward selection but
\* leaves the sides where they were
CanonicalSidesNotSwapped(self) ==
    IF PointLt(self.end, self.start)
    THEN [front |-> self.end, tail |-> self.start,
          front_side |-> self.start_side, tail_side |-> self.end_side]
    ELSE [front |-> self.start, tail |-> self.end,
          front_side |-> self.start_side, tail_side |-> self.end_side]

\* the tuple of span() without the swap of an upward selection
CanonicalNoSwap(self) ==
    [front |-> self.start, tail |-> self.end,
     front_side |-> self.start_side, tail_side |-> self.end_side]

\* the (front, tail, front_side, tail_side) tuple of span()
Canonical(self) ==
    IF PointLt(self.end, self.start)
    THEN [front |-> self.end, tail |-> self.start,
          front_side |-> self.end_side, tail_side |-> self.start_side]
    ELSE [front |-> self.start, tail |-> self.end,
          front_side |-> self.start_side, tail_side |-> self.end_side]

\* debug_assert!(!(tail < front))
SpanAssertHolds(self) ==
    self.tag = "Active" =>
        ~PointLt(Canonical(self).tail, Canonical(self).front)

MkSpan(ty, front, tail) == [ty |-> ty, front |-> front, tail |-> tail]

\* the final match with the two one-sided arms exchanged
SpanTypeOfArmsExchanged(front_side, tail_side) ==
    CASE front_side = "Left" /\ tail_side = "Right" -> "Inclusive"
      [] front_side = "Right" /\ tail_side = "Left" -> "Exclusive"
      [] front_side = "Left" /\ tail_side = "Left" -> "ExcludeFront"
      [] front_side = "Right" /\ tail_side = "Right" -> "ExcludeTail"

\* the final match of span() on (front_side, tail_side)
SpanTypeOf(front_side, tail_side) ==
    CASE front_side = "Left" /\ tail_side = "Right" -> "Inclusive"
      [] front_side = "Right" /\ tail_side = "Left" -> "Exclusive"
      [] front_side = "Left" /\ tail_side = "Left" -> "ExcludeTail"
      [] front_side = "Right" /\ tail_side = "Right" -> "ExcludeFront"

\* the adjacency test that subtracts the columns whatever the lines are
AdjacentNoLineCheck(front, tail) ==
    Checked(tail.line = front.line /\ UsizeSub(tail.col, front.col) = 1,
            SubUnderflows(tail.col, front.col))

\* the adjacency test with the operands of the subtraction exchanged
AdjacentOperandsExchanged(front, tail) ==
    IF tail.line = front.line
    THEN Checked(UsizeSub(front.col, tail.col) = 1,
                 SubUnderflows(front.col, tail.col))
    ELSE Checked(FALSE, FALSE)

\* tail.line == front.line && tail.col - front.col == Column(1); the
\* subtraction is evaluated only when the lines are equal
Adjacent(front, tail) ==
    IF tail.line = front.line
    THEN Checked(UsizeSub(tail.col, front.col) = 1,
                 SubUnderflows(tail.col, front.col))
    ELSE Checked(FALSE, FALSE)

\* span() whose single-cell case looks at the points only
span_single_cell_ignores_sides(self) ==
    IF self.tag = "Active"
    THEN LET c == Canonical(self) IN
         IF self.start = self.end
         THEN Checked(Some(MkSpan("Inclusive", c.front, c.tail)), FALSE)
         ELSE LET adjacent == Adjacent(c.front, c.tail) IN
              IF adjacent.val /\ c.front_side = "Right" /\ c.tail_side = "Left"
              THEN Checked(None, adjacent.underflow)
              ELSE Checked(Some(MkSpan(SpanTypeOf(c.front_side, c.tail_side),
                                       c.front, c.tail)),
                           adjacent.underflow)
    ELSE Checked(None, FALSE)

\* span() without the single-cell special case
span_no_single_cell(self) ==
    IF self.tag = "Active"
    THEN LET c == Canonical(self)
             adjacent == Adjacent(c.front, c.tail)
         IN IF adjacent.val /\ c.front_side = "Right" /\ c.tail_side = "Left"
            THEN Checked(None, adjacent.underflow)
            ELSE Checked(Some(MkSpan(SpanTypeOf(c.front_side, c.tail_side),
                                     c.front, c.tail)),
                         adjacent.underflow)
    ELSE Checked(None, FALSE)

span(self) ==
    IF self.tag = "Active"
    THEN LET c == Canonical(self) IN
         IF self.start = self.end
         THEN IF self.start_side # self.end_side
              THEN Checked(Some(MkSpan("Inclusive", c.front, c.tail)), FALSE)
              ELSE Checked(None, FALSE)
         ELSE LET adjacent == Adjacent(c.front, c.tail) IN
              IF adjacent.val /\ c.front_side = "Right" /\ c.tail_side = "Left"
              THEN Checked(None, adjacent.underflow)
              ELSE Checked(Some(MkSpan(SpanTypeOf(c.front_side, c.tail_side),
                                       c.front, c.tail)),
                           adjacent.underflow)
    ELSE Checked(None, FALSE)

(* ------------------------------- Span --------------------------------- *)
\* wrap_start that wraps one column late
wrap_start_late(start, cols) ==
    IF start.col = cols
    THEN Checked(Point(start.line + 1, 0), FALSE)
    ELSE Checked(Point(start.line, start.col + 1), FALSE)

wrap_start(start, cols) ==
    IF start.col = UsizeSub(cols, 1)
    THEN Checked(Point(start.line + 1, 0), SubUnderflows(cols, 1))
    ELSE Checked(Point(start.line, start.col + 1), SubUnderflows(cols, 1))

\* wrap_end without the wrap to the previous line
wrap_end_no_wrap(end, cols) ==
    Checked(Point(end.line, UsizeSub(end.col, 1)), SubUnderflows(end.col, 1))

wrap_end(end, cols) ==
    IF end.col = 0 /\ end.line # 0
    THEN Checked(Point(UsizeSub(end.line, 1), cols),
                 SubUnderflows(end.line, 1))
    ELSE Checked(Point(end.line, UsizeSub(end.col, 1)),
                 SubUnderflows(end.col, 1))

exclude_start(start) == start + 1

exclude_end(end) ==
    IF end > 0
    THEN Checked(UsizeSub(end, 1), SubUnderflows(end, 1))
    ELSE Checked(end, FALSE)

to_locations(self, cols) ==
    CASE self.ty = "Inclusive" -> Checked(<<self.front, self.tail>>, FALSE)
      [] self.ty = "Exclusive" ->
            LET s == wrap_start(self.front, cols)
                e == wrap_end(self.tail, cols)
            IN Checked(<<s.val, e.val>>, s.underflow \/ e.underflow)
      [] self.ty = "ExcludeFront" ->
            LET s == wrap_start(self.front, cols)
            IN Checked(<<s.val, self.tail>>, s.underflow)
      [] self.ty = "ExcludeTail" ->
            LET e == wrap_end(self.tail, cols)
            IN Checked(<<self.front, e.val>>, e.underflow)

\* to_range with the two one-sided arms exchanged
to_range_arms_exchanged(self, cols) ==
    LET start == Linear(self.front, cols)
        end == Linear(self.tail, cols)
    IN CASE self.ty = "Inclusive" -> Checked(<<start, end>>, FALSE)
         [] self.ty = "Exclusive" ->
               Checked(<<exclude_start(start), exclude_end(end).val>>,
                       exclude_end(end).underflow)
         [] self.ty = "ExcludeFront" ->
               Checked(<<start, exclude_end(end).val>>,
                       exclude_end(end).underflow)
         [] self.ty = "ExcludeTail" ->
               Checked(<<exclude_start(start), end>>, FALSE)

to_range(self, cols) ==
    LET start == Linear(self.front, cols)
        end == Linear(self.tail, cols)
    IN CASE self.ty = "Inclusive" -> Checked(<<start, end>>, FALSE)
         [] self.ty = "Exclusive" ->
               Checked(<<exclude_start(start), exclude_end(end).val>>,
                       exclude_end(end).underflow)
         [] self.ty = "ExcludeFront" ->
               Checked(<<exclude_start(start), end>>, FALSE)
         [] self.ty = "ExcludeTail" ->
               Checked(<<start, exclude_end(end).val>>,
                       exclude_end(end).underflow)

(* --------------------------- state machine ---------------------------- *)
VARIABLES
    cols,          \* the grid width the caller passes to the conversions
    selection,     \* the Selection value
    first,         \* arguments of the first update since the last clear
    last,          \* arguments of the most recent update since the last clear
    nUpdates,      \* updates since the last clear (or since new())
    clearedStart,  \* start of the selection the last clear() replaced
    ret            \* the last call: its name, its result, its underflow flag

vars == <<cols, selection, first, last, nUpdates, clearedStart, ret>>

Widths == 1..MaxCols

\* the points of a grid of the given width
Points(w) == {Point(l, c) : l \in 0..MaxLine, c \in 0..(w - 1)}

Return(op, checked) ==
    [op |-> op, val |-> checked.val, underflow |-> checked.underflow]

Unit == Checked("unit", FALSE)

Arg(p, s) == [point |-> p, side |-> s]

Init ==
    /\ cols \in Widths
    /\ selection = new
    /\ first = None
    /\ last = None
    /\ nUpdates = 0
    /\ clearedStart = None
    /\ ret = Return("new", Unit)

Update ==
    /\ nUpdates < MaxUpdates
    /\ \E location \in Points(cols), side \in Sides :
          /\ selection' = update(selection, location, side)
          /\ first' = IF nUpdates = 0 THEN Some(Arg(location, side)) ELSE first
          /\ last' = Some(Arg(location, side))
    /\ nUpdates' = nUpdates + 1
    /\ ret' = Return("update", Unit)
    /\ UNCHANGED <<cols, clearedStart>>

Clear ==
    /\ selection' = clear(selection)
    /\ first' = None
    /\ last' = None
    /\ nUpdates' = 0
    /\ clearedStart' = IF selection.tag = "Active"
                       THEN Some(selection.start) ELSE None
    /\ ret' = Return("clear", Unit)
    /\ UNCHANGED cols

IsEmpty ==
    /\ ret' = Return("is_empty", Checked(is_empty(selection), FALSE))
    /\ UNCHANGED <<cols, selection, first, last, nUpdates, clearedStart>>

\* span() that takes the selection out of self, as update does, and does
\* not put it back
SpanQueryTakesSelection ==
    /\ ret' = Return("span", span(selection))
    /\ selection' = Empty
    /\ UNCHANGED <<cols, first, last, nUpdates, clearedStart>>

SpanQuery ==
    /\ ret' = Return("span", span(selection))
    /\ UNCHANGED <<cols, selection, first, last, nUpdates, clearedStart>>

\* selection.span().map(|span| span.to_locations(cols))
ToLocations ==
    /\ span(selection).val # None
    /\ ret' = Return("to_locations", to_locations(span(selection).val.val, cols))
    /\ UNCHANGED <<cols, selection, first, last, nUpdates, clearedStart>>

\* selection.span().map(|span| span.to_range(cols))
ToRange ==
    /\ span(selection).val # None
    /\ ret' = Return("to_range", to_range(span(selection).val.val, cols))
    /\ UNCHANGED <<cols, selection, first, last, nUpdates, clearedStart>>

Next ==
    \/ Update
    \/ Clear
    \/ IsEmpty
    \/ SpanQuery
    \/ ToLocations
    \/ ToRange

Spec == Init /\ [][Next]_vars

(* ------------------------------ properties ---------------------------- *)
\* the Option<Span> that span() returns for the current selection
CurrentSpan == span(selection).val

HasSpan == CurrentSpan.tag = "Some"

\* the updates since the last clear were exactly these two, in this order
TwoUpdates(p1, s1, p2, s2) ==
    /\ nUpdates = 2
    /\ first = Some(Arg(p1, s1))
    /\ last = Some(Arg(p2, s2))

\* C1: the selection is Active exactly when an update has happened since the
\* last clear (or since new()); then start/start_side are the arguments of
\* the first such update and end/end_side those of the most recent one.
C1_StartIsFirstEndIsLast ==
    /\ (selection.tag = "Active") <=> (nUpdates > 0)
    /\ nUpdates = 0 => selection = Empty
    /\ nUpdates > 0 =>
          /\ selection.start = first.val.point
          /\ selection.start_side = first.val.side
          /\ selection.end = last.val.point
          /\ selection.end_side = last.val.side
    /\ nUpdates = 1 =>
          /\ selection.start = selection.end
          /\ selection.start_side = selection.end_side

C1_Witness ==
    /\ nUpdates = 3
    /\ selection.tag = "Active"
    /\ selection.start # selection.end
    /\ selection.start_side # selection.end_side
    /\ first # last

\* C2: whenever span() returns Some(Span), front <= tail in Point ordering
\* (line first, then column), and the debug assertion !(tail < front) of
\* span() holds in every Active state.
C2_FrontLeTail ==
    /\ SpanAssertHolds(selection)
    /\ HasSpan =>
          \/ CurrentSpan.val.front.line < CurrentSpan.val.tail.line
          \/ /\ CurrentSpan.val.front.line = CurrentSpan.val.tail.line
             /\ CurrentSpan.val.front.col <= CurrentSpan.val.tail.col

\* an upward drag that span() resolves to a Span
C2_Witness ==
    /\ selection.tag = "Active"
    /\ selection.end.line < selection.start.line
    /\ HasSpan
    /\ CurrentSpan.val.front = selection.end
    /\ ret.op = "span"

\* the earlier and the later endpoint of the Active selection in reading
\* order, with their sides
EarlierIsEnd ==
    \/ selection.end.line < selection.start.line
    \/ /\ selection.end.line = selection.start.line
       /\ selection.end.col < selection.start.col

FrontPoint == IF EarlierIsEnd THEN selection.end ELSE selection.start

TailPoint == IF EarlierIsEnd THEN selection.start ELSE selection.end

FrontSide == IF EarlierIsEnd THEN selection.end_side ELSE selection.start_side

TailSide == IF EarlierIsEnd THEN selection.start_side ELSE selection.end_side

Seam ==
    /\ FrontPoint.line = TailPoint.line
    /\ TailPoint.col - FrontPoint.col = 1
    /\ FrontSide = "Right"
    /\ TailSide = "Left"

\* C3: in every Active state with front # tail that is not the same-line
\* adjacency seam, span() returns Some(Span{front, tail, ty}) with ty read
\* from the canonicalized sides: (Left,Right) Inclusive, (Right,Left)
\* Exclusive, (Left,Left) ExcludeTail, (Right,Right) ExcludeFront; dragging
\* upward from (1,1) Right to (0,1) Right gives ExcludeFront, (0,1), (1,1).
C3_SpanTypeFromSides ==
    /\ (selection.tag = "Active" /\ FrontPoint # TailPoint /\ ~Seam) =>
          /\ HasSpan
          /\ CurrentSpan.val.front = FrontPoint
          /\ CurrentSpan.val.tail = TailPoint
          /\ (FrontSide = "Left" /\ TailSide = "Right")
                => CurrentSpan.val.ty = "Inclusive"
          /\ (FrontSide = "Right" /\ TailSide = "Left")
                => CurrentSpan.val.ty = "Exclusive"
          /\ (FrontSide = "Left" /\ TailSide = "Left")
                => CurrentSpan.val.ty = "ExcludeTail"
          /\ (FrontSide = "Right" /\ TailSide = "Right")
                => CurrentSpan.val.ty = "ExcludeFront"
    /\ TwoUpdates(Point(1, 1), "Right", Point(0, 1), "Right") =>
          CurrentSpan = Some(MkSpan("ExcludeFront", Point(0, 1), Point(1, 1)))

\* the upward drag of across_adjacent_lines_upward_final_cell_exclusive
C3_Witness ==
    /\ TwoUpdates(Point(1, 1), "Right", Point(0, 1), "Right")
    /\ cols = 5
    /\ ret.op = "span"
    /\ ret.val.tag = "Some"

\* C4: from Empty, update((l,c),Right); update((l,c+1),Left) makes span()
\* return None, and so do the same two updates in the reverse order.
C4_AdjacencySuppression ==
    \A l \in 0..MaxLine, c \in 0..(MaxCols - 1) :
        /\ TwoUpdates(Point(l, c), "Right", Point(l, c + 1), "Left")
              => CurrentSpan = None
        /\ TwoUpdates(Point(l, c + 1), "Left", Point(l, c), "Right")
              => CurrentSpan = None

\* the right-to-left seam, queried
C4_Witness ==
    /\ \E l \in 0..MaxLine, c \in 1..(MaxCols - 1) :
          TwoUpdates(Point(l, c + 1), "Left", Point(l, c), "Right")
    /\ ret.op = "span"
    /\ ret.val = None

\* C5: from Empty, update(p,Left); update(p,Right) makes span() return
\* Some(Span{Inclusive, front = p, tail = p}), and so do the same two
\* updates in the reverse order.
C5_SingleCell ==
    \A p \in Points(cols) :
        /\ TwoUpdates(p, "Left", p, "Right")
              => CurrentSpan = Some(MkSpan("Inclusive", p, p))
        /\ TwoUpdates(p, "Right", p, "Left")
              => CurrentSpan = Some(MkSpan("Inclusive", p, p))

\* a single cell selected right to left, queried
C5_Witness ==
    /\ \E p \in Points(cols) : TwoUpdates(p, "Right", p, "Left")
    /\ ret.op = "span"
    /\ ret.val.tag = "Some"

\* C6: whenever the Active selection has end = start and end_side =
\* start_side, span() returns None: after a single update, after the same
\* update twice, and after a longer drag that returns to the anchor cell on
\* the anchor's side.
C6_Degenerate ==
    /\ (/\ selection.tag = "Active"
        /\ selection.end = selection.start
        /\ selection.end_side = selection.start_side) => CurrentSpan = None
    /\ (nUpdates >= 1 /\ first = last) => CurrentSpan = None

\* a drag that left the anchor cell and came back to it
C6_Witness ==
    /\ nUpdates = 3
    /\ first = last
    /\ ret.op = "span"
    /\ ret.val = None

\* C7: clear() in any state leaves the selection Empty, so that is_empty()
\* is true and span() is None right afterwards, and an update(p, s) that
\* follows a clear starts a fresh selection anchored at p.
C7_ClearResets ==
    [][/\ ret'.op = "clear" =>
             /\ selection' = Empty
             /\ is_empty(selection')
             /\ span(selection').val = None
       /\ (ret.op = "clear" /\ ret'.op = "update") =>
             /\ selection'.tag = "Active"
             /\ selection'.start = last'.val.point
             /\ selection'.start_side = last'.val.side
             /\ selection'.end = last'.val.point
             /\ selection'.end_side = last'.val.side]_vars

\* an Active selection was cleared and the next update anchored elsewhere
C7_Witness ==
    /\ clearedStart.tag = "Some"
    /\ nUpdates = 1
    /\ ret.op = "update"
    /\ selection.start # clearedStart.val

\* C8: for every Span that span() can return with in-grid points, neither
\* to_locations(width) nor to_range(width) subtracts below zero.
C8_NoUnderflow ==
    /\ HasSpan =>
          /\ ~to_locations(CurrentSpan.val, cols).underflow
          /\ ~to_range(CurrentSpan.val, cols).underflow
    /\ ret.op \in {"to_locations", "to_range"} => ~ret.underflow

\* the excluded tail sits in column 0 and is retreated to the previous line
C8_Witness ==
    /\ ret.op = "to_locations"
    /\ HasSpan
    /\ CurrentSpan.val.ty \in {"Exclusive", "ExcludeTail"}
    /\ CurrentSpan.val.tail.col = 0

\* advance and retreat as the specification words them, over the integers
Advance(p, width) ==
    IF p.col = width - 1 THEN Point(p.line + 1, 0)
    ELSE Point(p.line, p.col + 1)

Retreat(p, width) ==
    IF p.col = 0 /\ p.line # 0 THEN Point(p.line - 1, width)
    ELSE Point(p.line, p.col - 1)

\* C9: to_locations(width) is (front, tail) for Inclusive, (advance(front),
\* retreat(tail)) for Exclusive, (advance(front), tail) for ExcludeFront and
\* (front, retreat(tail)) for ExcludeTail; with width 5 the Span
\* {ExcludeFront, (0,1), (1,1)} maps to ((0,2), (1,1)).
C9_ToLocations ==
    /\ HasSpan =>
          LET sp == CurrentSpan.val
              loc == to_locations(sp, cols).val
          IN /\ sp.ty = "Inclusive" => loc = <<sp.front, sp.tail>>
             /\ sp.ty = "Exclusive" =>
                   loc = <<Advance(sp.front, cols), Retreat(sp.tail, cols)>>
             /\ sp.ty = "ExcludeFront" =>
                   loc = <<Advance(sp.front, cols), sp.tail>>
             /\ sp.ty = "ExcludeTail" =>
                   loc = <<sp.front, Retreat(sp.tail, cols)>>
    /\ (cols = 5 /\ CurrentSpan =
            Some(MkSpan("ExcludeFront", Point(0, 1), Point(1, 1)))) =>
          to_locations(CurrentSpan.val, cols).val = <<Point(0, 2), Point(1, 1)>>

\* an Exclusive span whose front advances over the end of its line
C9_Witness ==
    /\ ret.op = "to_locations"
    /\ HasSpan
    /\ CurrentSpan.val.ty = "Exclusive"
    /\ CurrentSpan.val.front.col = cols - 1
    /\ ret.val[1] = Point(CurrentSpan.val.front.line + 1, 0)

\* exclude_end as the specification words it, over the integers
ExcludeEnd(x) == IF x > 0 THEN x - 1 ELSE 0

\* C10: to_range(width) is the inclusive interval with start = front.line *
\* width + front.col and end = tail.line * width + tail.col: Inclusive
\* (start, end), Exclusive (start + 1, exclude_end(end)), ExcludeFront
\* (start + 1, end), ExcludeTail (start, exclude_end(end)); exclude_end(x) is
\* x - 1 when x > 0 and 0 when x = 0, and neither bound is negative.
C10_ToRange ==
    /\ HasSpan =>
          LET sp == CurrentSpan.val
              start == sp.front.line * cols + sp.front.col
              end == sp.tail.line * cols + sp.tail.col
              range == to_range(sp, cols).val
          IN /\ sp.ty = "Inclusive" => range = <<start, end>>
             /\ sp.ty = "Exclusive" => range = <<start + 1, ExcludeEnd(end)>>
             /\ sp.ty = "ExcludeFront" => range = <<start + 1, end>>
             /\ sp.ty = "ExcludeTail" => range = <<start, ExcludeEnd(end)>>
             /\ range[1] >= 0
             /\ range[2] >= 0
    /\ \A x \in 0..((MaxLine + 1) * MaxCols) :
          /\ exclude_end(x).val = ExcludeEnd(x)
          /\ exclude_end(x).val >= 0

\* an ExcludeTail span, converted
C10_Witness ==
    /\ ret.op = "to_range"
    /\ HasSpan
    /\ CurrentSpan.val.ty = "ExcludeTail"
    /\ ret.val[2] = Linear(CurrentSpan.val.tail, cols) - 1

\* the selection that the first and the most recent update alone build
FirstThenLast ==
    update(update(new, first.val.point, first.val.side),
           last.val.point, last.val.side)

\* the selection that the same two updates build in the reverse order
LastThenFirst ==
    update(update(new, last.val.point, last.val.side),
           first.val.point, first.val.side)

\* C11: the span is order-independent: span() after update(a, sa);
\* update(b, sb) from Empty equals span() after update(b, sb); update(a, sa)
\* from Empty (same None/Some, same front, tail and SpanType).
C11_OrderIndependent ==
    nUpdates = 2 => span(selection).val = span(LastThenFirst).val

\* two different cells with different sides, resolved to a Span
C11_Witness ==
    /\ nUpdates = 2
    /\ first.val.point # last.val.point
    /\ first.val.side # last.val.side
    /\ ret.op = "span"
    /\ ret.val.tag = "Some"
    /\ span(LastThenFirst).val = ret.val

\* C12: is_empty() is true exactly when the state is Empty: true after new()
\* and after clear(), false after every update until the next clear, also in
\* the Active states where span() returns None.
C12_IsEmptyIffEmpty ==
    /\ is_empty(selection) <=> (nUpdates = 0)
    /\ ret.op \in {"new", "clear"} => is_empty(selection)
    /\ ret.op = "update" => ~is_empty(selection)
    /\ ret.op = "is_empty" => ret.val = (nUpdates = 0)

\* is_empty() answered false on the adjacency seam, where span() is None
C12_Witness ==
    /\ ret.op = "is_empty"
    /\ ret.val = FALSE
    /\ selection.tag = "Active"
    /\ selection.start # selection.end
    /\ CurrentSpan = None

Queries == {"is_empty", "span", "to_locations", "to_range"}

\* C13: span(), is_empty(), to_locations and to_range leave the Selection
\* unchanged, so a query repeated without an update or clear in between
\* returns the identical result.
C13_QueriesArePure ==
    [][ret'.op \in Queries =>
          /\ selection' = selection
          /\ <<first', last', nUpdates'>> = <<first, last, nUpdates>>
          /\ ret.op = ret'.op => ret' = ret]_vars

\* a Span was converted while the selection stayed Active
C13_Witness ==
    /\ ret.op = "to_range"
    /\ selection.tag = "Active"
    /\ nUpdates = 2
    /\ HasSpan

\* C14: after n >= 2 updates from Empty with no clear in between, span()
\* equals the span that the first and the last update alone give; a drag
\* from (0,1) Right that ends at (1,0) Right after an update in between
\* yields Span{ExcludeFront, front = (0,1), tail = (1,0)}.
C14_IntermediateUpdatesDoNotMatter ==
    /\ nUpdates >= 2 => span(selection).val = span(FirstThenLast).val
    /\ (/\ nUpdates = 3
        /\ first = Some(Arg(Point(0, 1), "Right"))
        /\ last = Some(Arg(Point(1, 0), "Right"))) =>
          CurrentSpan = Some(MkSpan("ExcludeFront", Point(0, 1), Point(1, 0)))

\* the drag of selection_bigger_then_smaller, three updates long
C14_Witness ==
    /\ nUpdates = 3
    /\ first = Some(Arg(Point(0, 1), "Right"))
    /\ last = Some(Arg(Point(1, 0), "Right"))
    /\ cols = 5
    /\ ret.op = "span"
    /\ ret.val = Some(MkSpan("ExcludeFront", Point(0, 1), Point(1, 0)))

\* line * width + col, over the integers
Flatten(p, width) == p.line * width + p.col

\* C15: for every Span returned by span() with in-grid points, flattening
\* the two points of to_locations(width) with line * width + col yields the
\* lower and the upper bound of to_range(width).
C15_LocationsAgreeWithRange ==
    HasSpan =>
        LET loc == to_locations(CurrentSpan.val, cols).val
            range == to_range(CurrentSpan.val, cols).val
        IN /\ Flatten(loc[1], cols) = range[1]
           /\ Flatten(loc[2], cols) = range[2]

\* line first, then column, over the integers
InReadingOrder(a, b) ==
    a.line < b.line \/ (a.line = b.line /\ a.col <= b.col)

\* C16: every Span returned as Some by span() with in-grid points selects at
\* least one cell: to_range(width) has lower bound <= upper bound and
\* to_locations(width) returns (a, b) with a <= b in Point ordering, also on
\* the line-wrap seam (front in the last column with side Right, tail in
\* column 0 of the next line with side Left).
C16_SpanSelectsACell ==
    HasSpan =>
        LET loc == to_locations(CurrentSpan.val, cols).val
            range == to_range(CurrentSpan.val, cols).val
        IN /\ range[1] <= range[2]
           /\ InReadingOrder(loc[1], loc[2])

\* C17: for every Span returned by span() with in-grid points, both points
\* of to_locations(width) have a column in 0..width-1.
C17_LocationsInsideGrid ==
    HasSpan =>
        LET loc == to_locations(CurrentSpan.val, cols).val
        IN /\ loc[1].col \in 0..(cols - 1)
           /\ loc[2].col \in 0..(cols - 1)

\* C18: in every Active state the adjacency test of span() subtracts the
\* columns only when tail.line = front.line, and then tail.col >= front.col,
\* so the column difference never goes below zero.
C18_AdjacencyNeverUnderflows ==
    /\ ~span(selection).underflow
    /\ ret.op = "span" => ~ret.underflow
    /\ (selection.tag = "Active" /\ FrontPoint.line = TailPoint.line) =>
          /\ TailPoint.col >= FrontPoint.col
          /\ ~Adjacent(FrontPoint, TailPoint).underflow
    /\ (selection.tag = "Active" /\ FrontPoint.line # TailPoint.line) =>
          ~Adjacent(FrontPoint, TailPoint).underflow

\* a drag to the left on one line, and a drag to a later line that ends in
\* a smaller column, both queried
C18_Witness ==
    /\ ret.op = "span"
    /\ selection.tag = "Active"
    /\ \/ /\ selection.start.line = selection.end.line
          /\ selection.end.col < selection.start.col
       \/ /\ selection.start.line < selection.end.line
          /\ selection.end.col < selection.start.col

====
